---------------------------- MODULE Spec2Model ----------------------------
(***************************************************************************)
(* Redfield relaxation tensor of pyQME (pyQME/tensors/markov/redfield.py). *)
(*                                                                         *)
(* One RedfieldTensor instance is modelled: the arrays borrowed at         *)
(* construction (U, Om, SD_id_list, the spectral-density evaluator, the    *)
(* secular flag, the time grid) and the attributes the methods store       *)
(* (rates, GammF, RTen, dephasing), the last array calc_redf_xi returned   *)
(* and the exception the last call raised.                                 *)
(*                                                                         *)
(* Numbers.  Real numbers are integers and complex numbers are pairs       *)
(* <<re, im>> of integers, with exact arithmetic: rounding is not          *)
(* modelled, so "equal" below is the exact identity the floating-point     *)
(* code approximates.  The evaluator's outputs are even integers, so that  *)
(* the halvings of the code (Cw_matrix/2, -0.5*(...)) are exact, as they   *)
(* are in binary floating point.  The amplitudes U[i][a] are small         *)
(* integers: they stand for an eigenvector matrix scaled by a common       *)
(* factor (every quantity computed here is homogeneous in U).              *)
(*                                                                         *)
(* Indices are 0-based as in the code; SD_id_list is a TLA+ sequence, so   *)
(* site i is its element i+1.                                              *)
(***************************************************************************)
EXTENDS Integers, Sequences, FiniteSets, TLC

VARIABLES U, Om, SD_id_list, specden, secularize, time,
          rates, GammF, RTen, dephasing, xi_at, raised, path

vars == <<U, Om, SD_id_list, specden, secularize, time,
          rates, GammF, RTen, dephasing, xi_at, raised, path>>

inputs == <<U, Om, SD_id_list, specden, secularize, time>>

-----------------------------------------------------------------------------
(* Bounds and input sets *)

\* number of chromophore sites = number of exciton states (U is square)
Dim == 2

Exc == 0 .. (Dim - 1)
Sites == 0 .. (Dim - 1)

\* identifiers of the spectral densities the evaluator knows
SDIds == {0, 1}

\* exciton energies in cm^-1 (Scenario A of the specification uses 0 and 100)
EneSet == {0, 100}

\* frequencies the evaluator can be asked for: differences of two energies
Freqs == {e1 - e2 : e1 \in EneSet, e2 \in EneSet}

\* The matrices U, for a ring of sites coupled to their neighbours: site i
\* is localized on exciton state i, or shared by the states i and i+1 in
\* phase or out of phase.
UnitRow(a) == [b \in Exc |-> IF b = a THEN 1 ELSE 0]
PairRow(a, c, s) == [b \in Exc |-> IF b = a THEN 1 ELSE IF b = c THEN s ELSE 0]
Neighbour(i) == (i + 1) % Dim
RowsOfSite(i) == {UnitRow(i), PairRow(i, Neighbour(i), 1), PairRow(i, Neighbour(i), -1)}
RowSet == UNION {RowsOfSite(i) : i \in Sites}
UMatrices == {Um \in [Sites -> RowSet] : \A i \in Sites : Um[i] \in RowsOfSite(i)}

\* Bath responses C(w) at w = -100, 0, 100, as complex numbers <<re, im>>:
\* a thermal one (positive real part, larger downhill) and one whose real
\* part changes sign.
Thermal == [w \in Freqs |-> IF w < 0 THEN <<2, -2>> ELSE IF w = 0 THEN <<4, 0>> ELSE <<6, 2>>]
Signed == [w \in Freqs |-> IF w < 0 THEN <<4, 2>> ELSE IF w = 0 THEN <<2, 4>> ELSE <<-2, 6>>]
Profiles == {Thermal, Signed}

\* time grid of the spectral density object
TimeGrids == {<<0, 3>>}

-----------------------------------------------------------------------------
(* Complex numbers and sums *)

CZero == <<0, 0>>
CAdd(z, w) == <<z[1] + w[1], z[2] + w[2]>>
CSub(z, w) == <<z[1] - w[1], z[2] - w[2]>>
CNeg(z) == <<-z[1], -z[2]>>
CConj(z) == <<z[1], -z[2]>>
CScale(r, z) == <<r * z[1], r * z[2]>>
\* z/2 and 0.5*z on even components
CHalf(z) == <<z[1] \div 2, z[2] \div 2>>
CReal(r) == <<r, 0>>

\* sums of f[0], ..., f[n] (real and complex)
RECURSIVE SumUpTo(_, _)
SumUpTo(f, n) == IF n < 0 THEN 0 ELSE f[n] + SumUpTo(f, n - 1)

RECURSIVE SumCUpTo(_, _)
SumCUpTo(f, n) == IF n < 0 THEN CZero ELSE CAdd(f[n], SumCUpTo(f, n - 1))

\* sums over the exciton states, and over the sites of a mask (a set of sites)
SumInt(f) == SumUpTo(f, Dim - 1)
SumC(f) == SumCUpTo(f, Dim - 1)
SumMask(f, mask) == SumUpTo([i \in Sites |-> IF i \in mask THEN f[i] ELSE 0], Dim - 1)
SumCMask(f, mask) == SumCUpTo([i \in Sites |-> IF i \in mask THEN f[i] ELSE CZero], Dim - 1)

\* An array built entry by entry.  f @@ << >> is f itself; it makes TLC hold
\* the array as a table instead of recomputing an entry at every read.
Stored(f) == f @@ << >>
Vec(F(_)) == Stored([a \in Exc |-> F(a)])
Mat(F(_, _)) == Stored([a \in Exc |-> Stored([b \in Exc |-> F(a, b)])])
Ten(F(_, _, _, _)) ==
    Stored([a \in Exc |-> Stored([b \in Exc |->
        Stored([c \in Exc |-> Stored([d \in Exc |-> F(a, b, c, d)])])])])

ZeroMat == Mat(LAMBDA a, b : 0)
ZeroTen == Ten(LAMBDA a, b, c, d : CZero)

MatAdd(M, N) == Mat(LAMBDA a, b : M[a][b] + N[a][b])
MatAddC(M, N) == Mat(LAMBDA a, b : CAdd(M[a][b], N[a][b]))
TenAdd(S, T) == Ten(LAMBDA a, b, c, d : CAdd(S[a][b][c][d], T[a][b][c][d]))
TenSub(S, T) == Ten(LAMBDA a, b, c, d : CSub(S[a][b][c][d], T[a][b][c][d]))
VecAddC(v, w) == Vec(LAMBDA a : CAdd(v[a], w[a]))
Transpose(M) == Mat(LAMBDA a, b : M[b][a])

-----------------------------------------------------------------------------
(* The collaborators: eigenbasis and spectral-density evaluator *)

\* Om[a][b] = E_b - E_a
OmOf(ene) == Mat(LAMBDA a, b : ene[b] - ene[a])

\* X[i][a][b] = U[i][a] * U[i][b]
XOf(Um) == Stored([i \in Sites |-> Mat(LAMBDA a, b : Um[i][a] * Um[i][b])])

\* self.specden(W, SD_id=.., imag=..): the response at every frequency of W,
\* complex when imag, its (real-valued) real part otherwise
SpecdenCall(sd, W, SD_id, imag) ==
    Mat(LAMBDA a, b : IF imag THEN sd[SD_id][W[a][b]] ELSE sd[SD_id][W[a][b]][1])

-----------------------------------------------------------------------------
(* Grouping of the sites by spectral density *)

\* set(SD_id_list)
IdSet(list) == {list[k] : k \in 1 .. Len(list)}

\* the orders in which [*set(SD_id_list)] may enumerate the identifiers
IdOrders(list) ==
    {o \in [1 .. Cardinality(IdSet(list)) -> IdSet(list)] :
        \A j, k \in DOMAIN o : j # k => o[j] # o[k]}

\* mask = [chrom_idx for chrom_idx,x in enumerate(SD_id_list) if x == SD_id]
Mask(list, SD_id) == {i \in 0 .. (Len(list) - 1) : list[i + 1] = SD_id}

\* coef2[mask,:] and X[mask,:,:] raise IndexError on an index past the last site
MaskInRange(mask) == mask \subseteq Sites

\* some mask of the loop over the identifiers indexes past the last site
RaisesIndexError(list) == \E SD_id \in IdSet(list) : ~MaskInRange(Mask(list, SD_id))

-----------------------------------------------------------------------------
(* _calc_redfield_rates *)

\* variant: coef2 = self.U
Coef2_NotSquared(Um) == Stored([i \in Sites |-> Vec(LAMBDA a : Um[i][a])])

\* coef2 = self.U**2
Coef2(Um) == Stored([i \in Sites |-> Vec(LAMBDA a : Um[i][a] * Um[i][a])])

\* contract('ia,ib,ab->ab',coef2[mask,:],coef2[mask,:],Cw_matrix)
Contract_ia_ib_ab(c2, mask, Cw) ==
    Mat(LAMBDA a, b : SumMask([i \in mask |-> c2[i][a] * c2[i][b] * Cw[a][b]], mask))

\* variant: rates = contract(...): each identifier overwrites the sum
RatesLoop_Overwrite(c2, W, list, sd, order, k) ==
    IF k = 0 THEN ZeroMat
    ELSE Contract_ia_ib_ab(c2, Mask(list, order[k]),
                           SpecdenCall(sd, Transpose(W), order[k], FALSE))

\* variant: the evaluator is called with self.Om instead of self.Om.T
RECURSIVE RatesLoop_NoTranspose(_, _, _, _, _, _)
RatesLoop_NoTranspose(c2, W, list, sd, order, k) ==
    IF k = 0 THEN ZeroMat
    ELSE MatAdd(RatesLoop_NoTranspose(c2, W, list, sd, order, k - 1),
                Contract_ia_ib_ab(c2, Mask(list, order[k]),
                                  SpecdenCall(sd, W, order[k], FALSE)))

\* the loop over the identifiers, in the order `order`, after k of them:
\* rates = rates + contract(...), starting from np.zeros
RECURSIVE RatesLoop(_, _, _, _, _, _)
RatesLoop(c2, W, list, sd, order, k) ==
    IF k = 0 THEN ZeroMat
    ELSE MatAdd(RatesLoop(c2, W, list, sd, order, k - 1),
                Contract_ia_ib_ab(c2, Mask(list, order[k]),
                                  SpecdenCall(sd, Transpose(W), order[k], FALSE)))

\* variant: the diagonal is not zeroed before the column sums are taken
ZeroDiagonal_Skipped(R) == R

\* rates[np.diag_indices_from(rates)] = 0.0
ZeroDiagonal(R) == Mat(LAMBDA a, b : IF a = b THEN 0 ELSE R[a][b])

\* np.sum(rates,axis=0)
ColumnSums(R) == Vec(LAMBDA b : SumInt(Vec(LAMBDA a : R[a][b])))

\* rates[np.diag_indices_from(rates)] = -np.sum(rates,axis=0)
SetDiagonal(R, v) == Mat(LAMBDA a, b : IF a = b THEN -v[a] ELSE R[a][b])
DiagonalFromColumns(R) == SetDiagonal(R, ColumnSums(R))

calc_redfield_rates(Um, W, list, sd, order) ==
    DiagonalFromColumns(ZeroDiagonal(RatesLoop(Coef2(Um), W, list, sd, order, Len(order))))

-----------------------------------------------------------------------------
(* _calc_redfield_tensor and _from_GammaF_to_RTen *)

\* variant: Cw_matrix, not halved
HalfMat_NotHalved(Cw) == Cw

\* Cw_matrix/2
HalfMat(Cw) == Mat(LAMBDA a, b : CHalf(Cw[a][b]))

\* variant: contract('iab,icd,ab->abcd',...)
Contract_iab_icd_ab(Xm, mask, Cw) ==
    Ten(LAMBDA a, b, c, d :
          SumCMask([i \in mask |-> CScale(Xm[i][a][b] * Xm[i][c][d], Cw[a][b])], mask))

\* contract('iab,icd,ba->abcd',self.X[mask,:,:],self.X[mask,:,:],Cw_matrix/2)
Contract_iab_icd_ba(Xm, mask, Cw) ==
    Ten(LAMBDA a, b, c, d :
          SumCMask([i \in mask |-> CScale(Xm[i][a][b] * Xm[i][c][d], Cw[b][a])], mask))

\* the loop building GammF, after k identifiers
RECURSIVE GammFLoop(_, _, _, _, _, _)
GammFLoop(Xm, W, list, sd, order, k) ==
    IF k = 0 THEN ZeroTen
    ELSE TenAdd(GammFLoop(Xm, W, list, sd, order, k - 1),
                Contract_iab_icd_ba(Xm, Mask(list, order[k]),
                                    HalfMat(SpecdenCall(sd, Transpose(W), order[k], TRUE))))

calc_GammF(Um, W, list, sd, order) == GammFLoop(XOf(Um), W, list, sd, order, Len(order))

\* np.eye(self.dim)
Eye == Mat(LAMBDA a, b : IF a = b THEN 1 ELSE 0)

\* variant: contract('dbca->abcd',GammF), not conjugated
Permuted_NoConj(G) == Ten(LAMBDA a, b, c, d : CAdd(G[c][a][b][d], G[d][b][c][a]))

\* contract('cabd->abcd',GammF) + contract('dbca->abcd',GammF.conj())
Permuted(G) == Ten(LAMBDA a, b, c, d : CAdd(G[c][a][b][d], CConj(G[d][b][c][a])))

\* variant: tmpac = contract('akkc->ac',GammF)
Tmpac_Swapped(G) == Mat(LAMBDA a, c : SumC(Vec(LAMBDA k : G[a][k][k][c])))

\* tmpac = contract('ckka->ac',GammF)
Tmpac(G) == Mat(LAMBDA a, c : SumC(Vec(LAMBDA k : G[c][k][k][a])))

\* contract('ac,bd->abcd',eye,tmpac.conj()) + contract('ac,bd->abcd',tmpac,eye)
DeltaTerms(T) ==
    Ten(LAMBDA a, b, c, d : CAdd(CScale(Eye[a][c], CConj(T[b][d])),
                                 CScale(Eye[b][d], T[a][c])))

\* RTen[:] = contract(..) + contract(..);  RTen -= contract(..) + contract(..)
from_GammaF_to_RTen(G) == TenSub(Permuted(G), DeltaTerms(Tmpac(G)))

\* self._secularize(RTen): every element whose frequency combination
\* (E_a - E_b) - (E_c - E_d) is not zero is set to zero
Secularize(W, R) ==
    Ten(LAMBDA a, b, c, d : IF W[b][a] - W[d][c] = 0 THEN R[a][b][c][d] ELSE CZero)

calc_redfield_tensor(G, W, sec) ==
    IF sec THEN Secularize(W, from_GammaF_to_RTen(G)) ELSE from_GammaF_to_RTen(G)

-----------------------------------------------------------------------------
(* _calc_redfield_dephasing *)

\* case 1: -(contract('aaaa->a',self.GammF) - contract('abba->a',self.GammF))
DephasingFull(G) ==
    Vec(LAMBDA a : CNeg(CSub(G[a][a][a][a],
                             SumC(Vec(LAMBDA b : G[a][b][b][a])))))

\* contract('iaa,iaa,aa->a',self.X[mask,:,:],self.X[mask,:,:],Cw_matrix)
Contract_iaa_iaa_aa(Xm, mask, Cw) ==
    Vec(LAMBDA a :
          SumCMask([i \in mask |-> CScale(Xm[i][a][a] * Xm[i][a][a], Cw[a][a])], mask))

\* contract('iab,iba,ba->ab',self.X[mask,:,:],self.X[mask,:,:],Cw_matrix)
Contract_iab_iba_ba(Xm, mask, Cw) ==
    Mat(LAMBDA a, b :
          SumCMask([i \in mask |-> CScale(Xm[i][a][b] * Xm[i][b][a], Cw[b][a])], mask))

\* GammF_aaaa after k >= 1 identifiers (assigned for SD_idx == 0, added to after)
AaaaTerm(Xm, W, list, sd, SD_id) ==
    Contract_iaa_iaa_aa(Xm, Mask(list, SD_id), SpecdenCall(sd, Transpose(W), SD_id, TRUE))

RECURSIVE AaaaLoop(_, _, _, _, _, _)
AaaaLoop(Xm, W, list, sd, order, k) ==
    IF k = 1 THEN AaaaTerm(Xm, W, list, sd, order[k])
    ELSE VecAddC(AaaaLoop(Xm, W, list, sd, order, k - 1),
                 AaaaTerm(Xm, W, list, sd, order[k]))

\* GammF_abba after k >= 1 identifiers
AbbaTerm(Xm, W, list, sd, SD_id) ==
    Contract_iab_iba_ba(Xm, Mask(list, SD_id), SpecdenCall(sd, Transpose(W), SD_id, TRUE))

RECURSIVE AbbaLoop(_, _, _, _, _, _)
AbbaLoop(Xm, W, list, sd, order, k) ==
    IF k = 1 THEN AbbaTerm(Xm, W, list, sd, order[k])
    ELSE MatAddC(AbbaLoop(Xm, W, list, sd, order, k - 1),
                 AbbaTerm(Xm, W, list, sd, order[k]))

\* case 2: -0.5*(GammF_aaaa - contract('ab->a',GammF_abba))
DephasingFromParts(aaaa, abba) ==
    Vec(LAMBDA a : CNeg(CHalf(CSub(aaaa[a], SumC(abba[a])))))

DephasingReduced(Um, W, list, sd, order) ==
    DephasingFromParts(AaaaLoop(XOf(Um), W, list, sd, order, Len(order)),
                       AbbaLoop(XOf(Um), W, list, sd, order, Len(order)))

\* contract('a,t->at',self.dephasing,self.specden.time)
Contract_a_t(deph, grid) ==
    Vec(LAMBDA a : [t \in 1 .. Len(grid) |-> CScale(grid[t], deph[a])])

-----------------------------------------------------------------------------
(* The instance *)

\* an attribute that is not set (hasattr is False), and one that holds v
Unset == [has |-> FALSE]
Holds(v) == [has |-> TRUE, val |-> v]

SDLists == UNION {[1 .. n -> SDIds] : n \in {Dim - 1, Dim, Dim + 1}}

Init ==
    /\ U \in UMatrices
    /\ \E ene \in [Exc -> EneSet] :
          /\ \A a, b \in Exc : a <= b => ene[a] <= ene[b]
          /\ Om = OmOf(ene)
    /\ SD_id_list \in SDLists
    /\ specden \in [SDIds -> Profiles]
    /\ secularize \in BOOLEAN
    /\ time \in TimeGrids
    /\ rates = Unset
    /\ GammF = Unset
    /\ RTen = Unset
    /\ dephasing = Unset
    /\ xi_at = Unset
    /\ raised = "none"
    /\ path = "none"

\* _calc_rates
CalcRates ==
    \E order \in IdOrders(SD_id_list) :
       /\ IF RaisesIndexError(SD_id_list)
            THEN /\ raised' = "IndexError"
                 /\ UNCHANGED rates
            ELSE /\ rates' = Holds(calc_redfield_rates(U, Om, SD_id_list, specden, order))
                 /\ raised' = "none"
       /\ UNCHANGED <<inputs, GammF, RTen, dephasing, xi_at, path>>

\* _calc_tensor
CalcTensor ==
    \E order \in IdOrders(SD_id_list) :
       /\ IF RaisesIndexError(SD_id_list)
            THEN /\ raised' = "IndexError"
                 /\ UNCHANGED <<GammF, RTen>>
            ELSE /\ GammF' = Holds(calc_GammF(U, Om, SD_id_list, specden, order))
                 /\ RTen' = Holds(calc_redfield_tensor(GammF'.val, Om, secularize))
                 /\ raised' = "none"
       /\ UNCHANGED <<inputs, rates, dephasing, xi_at, path>>

\* variant: no case 2: without self.GammF the attribute access fails
calc_redfield_dephasing_NoCase2(order) ==
    IF GammF.has THEN <<"none", "full", DephasingFull(GammF.val)>>
    ELSE <<"AttributeError", "full", << >> >>

\* _calc_redfield_dephasing: <<exception, path taken, value>>
calc_redfield_dephasing(order) ==
    IF GammF.has THEN <<"none", "full", DephasingFull(GammF.val)>>
    ELSE IF RaisesIndexError(SD_id_list) THEN <<"IndexError", "reduced", << >> >>
    ELSE IF Len(order) = 0 THEN <<"UnboundLocalError", "reduced", << >> >>
    ELSE <<"none", "reduced", DephasingReduced(U, Om, SD_id_list, specden, order)>>

\* _calc_dephasing
CalcDephasing ==
    \E order \in IdOrders(SD_id_list) :
       LET r == calc_redfield_dephasing(order)
       IN  /\ raised' = r[1]
           /\ path' = r[2]
           /\ dephasing' = IF r[1] = "none" THEN Holds(r[3]) ELSE dephasing
           /\ UNCHANGED <<inputs, rates, GammF, RTen, xi_at>>

\* calc_redf_xi
CalcXi ==
    \E order \in IdOrders(SD_id_list) :
       IF dephasing.has
         THEN /\ xi_at' = Holds(Contract_a_t(dephasing.val, time))
              /\ raised' = "none"
              /\ UNCHANGED <<inputs, rates, GammF, RTen, dephasing, path>>
         ELSE LET r == calc_redfield_dephasing(order)
              IN  /\ raised' = r[1]
                  /\ path' = r[2]
                  /\ dephasing' = IF r[1] = "none" THEN Holds(r[3]) ELSE dephasing
                  /\ xi_at' = IF r[1] = "none" THEN Holds(Contract_a_t(r[3], time))
                              ELSE xi_at
                  /\ UNCHANGED <<inputs, rates, GammF, RTen>>

Next == CalcRates \/ CalcTensor \/ CalcDephasing \/ CalcXi

Spec == Init /\ [][Next]_vars

\* the instances whose SD_id_list has one identifier per site
InitValid == Init /\ Len(SD_id_list) = Dim

\* the rate matrix alone
SpecRates == InitValid /\ [][CalcRates]_vars

\* the relaxation tensor alone
SpecTensor == InitValid /\ [][CalcTensor]_vars

\* the relaxation tensor and the dephasing, in either order
NextDephasing == CalcTensor \/ CalcDephasing
SpecDephasing == InitValid /\ [][NextDephasing]_vars

\* every request, on the instances with one identifier per site
SpecValid == InitValid /\ [][Next]_vars

\* _from_GammaF_to_RTen alone, on a stored tensor GammF with at most two
\* non-zero elements (the conversion is linear over the reals)
CUnits == {<<1, 0>>, <<0, 1>>}
Idx4 == Exc \X Exc \X Exc \X Exc
SparseTen(p, v, q, w) ==
    Ten(LAMBDA a, b, c, d : IF <<a, b, c, d>> = p THEN v
                            ELSE IF <<a, b, c, d>> = q THEN w ELSE CZero)

InitGamma ==
    /\ U = [i \in Sites |-> UnitRow(i)]
    /\ Om = ZeroMat
    /\ SD_id_list = [k \in 1 .. Dim |-> 0]
    /\ specden = [SD_id \in SDIds |-> Thermal]
    /\ secularize = FALSE
    /\ time = << >>
    /\ \E p \in Idx4, q \in Idx4, v \in CUnits, w \in CUnits :
          GammF = Holds(SparseTen(p, v, q, w))
    /\ rates = Unset
    /\ RTen = Unset
    /\ dephasing = Unset
    /\ xi_at = Unset
    /\ raised = "none"
    /\ path = "none"

ConvertGammF ==
    /\ GammF.has
    /\ RTen' = Holds(from_GammaF_to_RTen(GammF.val))
    /\ UNCHANGED <<inputs, rates, GammF, dephasing, xi_at, raised, path>>

SpecGamma == InitGamma /\ [][ConvertGammF]_vars

-----------------------------------------------------------------------------
(* The rate matrix (SpecRates) *)

\* C1: every column of the rate matrix sums to zero: for all a, the sum
\* over b of rates[b][a] is 0.
C1_ColumnsSumToZero ==
    rates.has => \A a \in Exc : SumInt([b \in Exc |-> rates.val[b][a]]) = 0

\* a rate matrix with a non-zero transfer rate
C1_Witness ==
    /\ rates.has
    /\ \E a, b \in Exc : a # b /\ rates.val[a][b] # 0

\* the identity eigenvector matrix
Identity == [i \in Sites |-> UnitRow(i)]

\* Scenario A without its U: two sites, E_0 = 0 and E_1 = 100 (so that
\* Om[0][1] = E_1 - E_0 = 100), one identifier shared by both sites
ScenarioEnergies ==
    /\ Dim = 2
    /\ Om[0][1] = 100
    /\ Len(SD_id_list) = 2
    /\ SD_id_list[1] = SD_id_list[2]

ScenarioA == ScenarioEnergies /\ U = Identity

\* the evaluator's real-mode response of the shared identifier at frequency w
ScenarioCw(w) == specden[SD_id_list[1]][w][1]

\* sum over the sites i of U[i][a]^2 * U[i][b]^2
Overlap(a, b) == SumInt([i \in Sites |-> U[i][a] * U[i][a] * U[i][b] * U[i][b]])

GroupU(SD_id) ==
    [i \in Sites |-> IF i \in Mask(SD_id_list, SD_id) THEN U[i]
                     ELSE [a \in Exc |-> 0]]
GroupRates(SD_id) ==
    calc_redfield_rates(GroupU(SD_id), Om, [k \in 1 .. Dim |-> SD_id], specden, <<SD_id>>)

\* sum over the identifiers in use of the rate matrices of the groups alone
RECURSIVE SumGroups(_, _, _)
SumGroups(ids, a, b) ==
    IF ids = {} THEN 0
    ELSE LET z == CHOOSE y \in ids : TRUE
         IN  GroupRates(z)[a][b] + SumGroups(ids \ {z}, a, b)

\* C8: the rate matrix is the entrywise sum, diagonal included, of the rate
\* matrices of the groups alone, and it is the same for every order in which
\* the identifiers are enumerated.
C8_SumOfGroups ==
    rates.has =>
        /\ \A a, b \in Exc : rates.val[a][b] = SumGroups(IdSet(SD_id_list), a, b)
        /\ \A order \in IdOrders(SD_id_list) :
              calc_redfield_rates(U, Om, SD_id_list, specden, order) = rates.val

\* two groups, each with a rate matrix of its own that is not zero
C8_Witness ==
    /\ rates.has
    /\ Cardinality(IdSet(SD_id_list)) = 2
    /\ \A z \in IdSet(SD_id_list) : GroupRates(z) # ZeroMat

\* C9 as stated: every diagonal entry of the rate matrix is non-positive.
C9_Original == rates.has => \A a \in Exc : rates.val[a][a] <= 0

\* the evaluator's real-mode output is non-negative at every frequency, for
\* every identifier of SD_id_list
NonNegativeResponse ==
    \A z \in IdSet(SD_id_list) : \A w \in Freqs : specden[z][w][1] >= 0

\* C9 as amended: when the evaluator's real-mode outputs are non-negative,
\* every diagonal entry of the rate matrix is non-positive.
C9_Amended ==
    (rates.has /\ NonNegativeResponse) => \A a \in Exc : rates.val[a][a] <= 0

\* a non-negative response and a state that loses population
C9_Witness ==
    /\ rates.has
    /\ NonNegativeResponse
    /\ \E a \in Exc : rates.val[a][a] < 0

-----------------------------------------------------------------------------
(* The relaxation tensor (SpecTensor, SpecGamma) *)

\* C3: RTen[a,b,c,d] = conjugate(RTen[b,a,d,c]) for all a, b, c, d, with and
\* without the secular filter.
C3_Hermiticity ==
    RTen.has =>
        \A a, b, c, d \in Exc : RTen.val[a][b][c][d] = CConj(RTen.val[b][a][d][c])

\* a tensor with a complex element between two different states
C3_Witness ==
    /\ RTen.has
    /\ \E a, b, c, d \in Exc : a # b /\ RTen.val[a][b][c][d][2] # 0

\* T[p,q] = sum_e Gamma[q,e,e,p]
TOf(G, p, q) == SumC([e \in Exc |-> G[q][e][e][p]])
Delta(a, b) == IF a = b THEN 1 ELSE 0

GammaAt(a, b, c, d, w) ==
    CHalf(SumC([i \in Sites |->
                  CScale(U[i][a] * U[i][b] * U[i][c] * U[i][d],
                         specden[SD_id_list[i + 1]][w])]))

-----------------------------------------------------------------------------
(* The requests on one instance (Spec, SpecDephasing, SpecValid) *)

\* C7: with an SD_id_list whose length is not the number of sites, no rate,
\* tensor or dephasing computation returns a result.
C7_MismatchFails ==
    Len(SD_id_list) # Dim =>
        ~rates.has /\ ~GammF.has /\ ~RTen.has /\ ~dephasing.has

\* C2: the dephasing vector is the one of the reduced path, whichever path
\* computed it and in whichever order the identifiers are enumerated, and it
\* is the one of the full-tensor path as soon as GammF is cached.
C2_PathsAgree ==
    dephasing.has =>
        /\ \A order \in IdOrders(SD_id_list) :
              dephasing.val = DephasingReduced(U, Om, SD_id_list, specden, order)
        /\ GammF.has => dephasing.val = DephasingFull(GammF.val)

\* a dephasing vector that is not zero, computed from the cached GammF
C2_Witness ==
    /\ dephasing.has
    /\ path = "full"
    /\ \E a \in Exc : dephasing.val[a] # CZero

\* C10: in every state a dephasing request yields a vector, by the
\* full-tensor path exactly when GammF is cached; no request has failed;
\* GammF is cached only together with RTen, by a tensor computation, so the
\* reduced path has stored neither.
C10_DephasingAlwaysAvailable ==
    /\ raised = "none"
    /\ \A order \in IdOrders(SD_id_list) :
          /\ calc_redfield_dephasing(order)[1] = "none"
          /\ calc_redfield_dephasing(order)[2] = (IF GammF.has THEN "full" ELSE "reduced")
          /\ DOMAIN calc_redfield_dephasing(order)[3] = Exc
    /\ GammF.has <=> RTen.has
    /\ path = "full" => GammF.has
    /\ path # "none" => dephasing.has

\* dephasing and xi obtained by the reduced path, no tensor built
C10_Witness ==
    /\ dephasing.has
    /\ xi_at.has
    /\ path = "reduced"
    /\ ~GammF.has
    /\ ~RTen.has

=============================================================================
